---- MODULE Spec2Model ----
(***************************************************************************)
(* ReactScannerPY: buildMasterHeaders.py (inventory refresh) and           *)
(* generateReactCodeDoc.py (document generation) over one workbook.        *)
(*                                                                         *)
(* Python strings are sequences of one-character strings; pathlib paths    *)
(* are records [abs, parts]; worksheet cells are records [k, s, n, b]      *)
(* (kind, string value, integer value, boolean value).                     *)
(***************************************************************************)
EXTENDS Integers, Sequences, FiniteSets, TLC

VARIABLES
    store,      \* App_React_PathFiles_selector.xlsx as saved on disk
    files,      \* the regular files that exist on disk (set of paths)
    gitignore,  \* the lines of /r/.gitignore
    doc,        \* ~/Desktop/AppReactDocument.txt as written on disk
    run,        \* what the last run or edit was and what it did
    edits       \* how many times the operator or the disk changed something

vars == <<store, files, gitignore, doc, run, edits>>

---------------------------------------------------------------------------
(* Python str: comparison, startswith, strip                               *)

\* The characters that occur in paths, in code-point order.
Alphabet ==
    <<".", "/", "_", "a", "b", "c", "d", "e", "f", "g", "h", "i", "j", "k",
      "l", "m", "n", "o", "p", "q", "r", "s", "t", "u", "v", "w", "x", "y", "z">>

Ord(c) == CHOOSE i \in 1..Len(Alphabet) : Alphabet[i] = c

RECURSIVE LessStr(_, _)
\* a < b for Python str: lexicographic by code point, a proper prefix first.
LessStr(a, b) ==
    IF b = <<>> THEN FALSE
    ELSE IF a = <<>> THEN TRUE
    ELSE IF Head(a) = Head(b) THEN LessStr(Tail(a), Tail(b))
    ELSE Ord(Head(a)) < Ord(Head(b))

\* str.startswith
StartsWith(s, prefix) ==
    /\ Len(prefix) <= Len(s)
    /\ SubSeq(s, 1, Len(prefix)) = prefix

RECURSIVE Strip(_)
\* str.strip() for blanks
Strip(s) ==
    IF s = <<>> THEN s
    ELSE IF Head(s) = " " THEN Strip(Tail(s))
    ELSE IF s[Len(s)] = " " THEN Strip(SubSeq(s, 1, Len(s) - 1))
    ELSE s

RECURSIVE SortedStrs(_)
\* sorted(S) for a set of str
SortedStrs(S) ==
    IF S = {} THEN <<>>
    ELSE LET m == CHOOSE x \in S : \A y \in S \ {x} : LessStr(x, y)
         IN  <<m>> \o SortedStrs(S \ {m})

---------------------------------------------------------------------------
(* pathlib.Path                                                            *)

RECURSIVE SplitSlash(_, _)
\* the components of a string between "/" separators, empty ones dropped
SplitSlash(s, cur) ==
    IF s = <<>> THEN (IF cur = <<>> THEN <<>> ELSE <<cur>>)
    ELSE IF Head(s) = "/"
         THEN (IF cur = <<>> THEN <<>> ELSE <<cur>>) \o SplitSlash(Tail(s), <<>>)
         ELSE SplitSlash(Tail(s), Append(cur, Head(s)))

\* Path(s)
PathOf(s) ==
    [abs |-> s # <<>> /\ Head(s) = "/", parts |-> SplitSlash(s, <<>>)]

RECURSIVE JoinParts(_)
JoinParts(parts) ==
    IF parts = <<>> THEN <<>>
    ELSE IF Len(parts) = 1 THEN parts[1]
    ELSE parts[1] \o <<"/">> \o JoinParts(Tail(parts))

\* str(path)
Str(p) ==
    IF p.abs THEN <<"/">> \o JoinParts(p.parts)
    ELSE IF p.parts = <<>> THEN <<".">>
    ELSE JoinParts(p.parts)

\* path / name
Child(p, name) == [p EXCEPT !.parts = Append(@, name)]

\* path.parent
Parent(p) ==
    IF p.parts = <<>> THEN p
    ELSE [p EXCEPT !.parts = SubSeq(@, 1, Len(@) - 1)]

\* path.name
Name(p) == IF p.parts = <<>> THEN <<>> ELSE p.parts[Len(p.parts)]

\* whether path.relative_to(other) returns rather than raising ValueError
IsRelativeTo(p, other) ==
    /\ p.abs = other.abs
    /\ Len(other.parts) <= Len(p.parts)
    /\ SubSeq(p.parts, 1, Len(other.parts)) = other.parts

\* path.relative_to(other)
RelativeTo(p, other) ==
    [abs |-> FALSE, parts |-> SubSeq(p.parts, Len(other.parts) + 1, Len(p.parts))]

\* the index of the last "." of a name, 0 when there is none
LastDot(name) ==
    LET at == {i \in 1..Len(name) : name[i] = "."}
    IN  IF at = {} THEN 0 ELSE CHOOSE i \in at : \A j \in at : j <= i

\* path.suffix: from the last dot, unless the dot leads or ends the name
Suffix(p) ==
    LET name == Name(p)
        i == LastDot(name)
    IN  IF 1 < i /\ i < Len(name) THEN SubSeq(name, i, Len(name)) ELSE <<>>

\* the working directory both programs are started in
Cwd == [abs |-> TRUE, parts |-> << <<"w">> >>]

\* path.resolve(): the tree holds no symbolic links and no ".." components
Resolve(p) == IF p.abs THEN p ELSE [abs |-> TRUE, parts |-> Cwd.parts \o p.parts]

---------------------------------------------------------------------------
(* The directory tree on disk                                              *)

AbsPath(parts) == [abs |-> TRUE, parts |-> parts]

n_r == <<"r">>
n_s == <<"s">>
n_sx == <<"s", "x">>
n_git == <<".", "g", "i", "t">>
n_build == <<"b", "u", "i", "l", "d">>
n_sub == <<"s", "u", "b">>
n_node_modules == <<"n", "o", "d", "e", "_", "m", "o", "d", "u", "l", "e", "s">>
n_pkg == <<"p", "k", "g">>

\* /r is a repository, /r/s a repository nested in it; /r/sx is a plain
\* directory whose name starts with the name of /r/s.
d_r == AbsPath(<<n_r>>)
d_s == AbsPath(<<n_r, n_s>>)
d_sx == AbsPath(<<n_r, n_sx>>)
d_build == AbsPath(<<n_r, n_build>>)
d_sub == AbsPath(<<n_r, n_build, n_sub>>)
d_k1 == AbsPath(<<n_r, n_build, n_sub, <<"k">>>>)
d_k2 == Child(d_k1, <<"k">>)
d_k3 == Child(d_k2, <<"k">>)
d_nm == AbsPath(<<n_r, n_node_modules>>)
d_pkg == AbsPath(<<n_r, n_node_modules, n_pkg>>)

Dirs ==
    {AbsPath(<<>>), Cwd, d_r, Child(d_r, n_git), d_s, Child(d_s, n_git), d_sx,
     d_build, d_sub, d_k1, d_k2, d_k3, d_nm, d_pkg}

f_a == Child(d_r, <<"a", ".", "j", "s">>)
f_b == Child(d_s, <<"b", ".", "j", "s">>)
f_t == Child(d_s, <<"t", ".", "m", "d">>)
f_c == Child(d_sx, <<"c", ".", "c", "s", "s">>)
f_d == Child(d_build, <<"d", ".", "j", "s">>)
f_e == Child(d_sub, <<"e", ".", "j", "s">>)
f_z == Child(d_k3, <<"z", ".", "j", "s">>)
f_m == Child(d_nm, <<"m", ".", "j", "s">>)
f_n == Child(d_pkg, <<"n", ".", "j", "s">>)

\* every regular file the tree can hold
FileUniverse == {f_a, f_b, f_t, f_c, f_d, f_e, f_z, f_m, f_n}

\* Path.exists(), Path.is_dir()
Exists(p, fs) == p \in Dirs \/ p \in fs
IsDir(p) == p \in Dirs

\* the subdirectories and the regular files os.walk lists in dirpath, in
\* name order (the listing order reaches no output: see scan_folder)
DirNames(dirpath) ==
    SortedStrs({Str(x) : x \in {y \in Dirs : y # dirpath /\ Parent(y) = dirpath}})

FileNames(dirpath, fs) ==
    SortedStrs({Str(x) : x \in {y \in fs : Parent(y) = dirpath}})

---------------------------------------------------------------------------
(* buildMasterHeaders.py: ignore rules and the scan                        *)

\* is_git_initialized
is_git_initialized(folder_path, fs) == Exists(Child(folder_path, n_git), fs)

\* load_gitignore_patterns: only /r holds a .gitignore
load_gitignore_patterns(folder_path, lines) ==
    IF folder_path = d_r
    THEN LET stripped == [i \in 1..Len(lines) |-> Strip(lines[i])]
         IN  SelectSeq(stripped, LAMBDA l : l # <<>> /\ Head(l) # "#")
    ELSE <<>>

RECURSIVE fnmatch(_, _)
\* fnmatch.fnmatch on POSIX (no case folding): "*" matches any run of
\* characters, "/" included, "?" one character, the rest literally; the
\* patterns of this model hold no "[" classes.
fnmatch(name, pat) ==
    IF pat = <<>> THEN name = <<>>
    ELSE IF Head(pat) = "*"
         THEN fnmatch(name, Tail(pat)) \/ (name # <<>> /\ fnmatch(Tail(name), pat))
    ELSE IF name = <<>> THEN FALSE
    ELSE IF Head(pat) = "?" THEN fnmatch(Tail(name), Tail(pat))
    ELSE Head(name) = Head(pat) /\ fnmatch(Tail(name), Tail(pat))

path_matches_patterns(path_str, patterns) ==
    \E i \in 1..Len(patterns) : fnmatch(path_str, patterns[i])

should_skip_dir(rel_dir_str, patterns) ==
    path_matches_patterns(rel_dir_str \o <<"/">>, patterns)

get_depth(root, file_path) == Len(RelativeTo(file_path, root).parts) - 1

hardcoded_ignores ==
    {<<".", "n", "e", "x", "t">>, n_node_modules, <<"a", "r", "c", "h", "i", "v", "e">>}

tracked_suffixes == {<<".", "j", "s">>, <<".", "c", "s", "s">>}

\* the files of one directory that scan_folder appends to results
wanted_files(dirpath, root, patterns, fs) ==
    LET names == FileNames(dirpath, fs)
        keep(s) ==
            /\ Suffix(PathOf(s)) \in tracked_suffixes
            /\ ~path_matches_patterns(Str(RelativeTo(PathOf(s), root)), patterns)
    IN  SelectSeq(names, keep)

RECURSIVE walk(_, _, _, _, _)
\* os.walk(root), top-down, with scan_folder's loop body: stack holds the
\* directories still to yield; acc the results and the directories yielded.
walk(stack, root, patterns, fs, acc) ==
    IF stack = <<>> THEN acc
    ELSE LET dirpath == PathOf(Head(stack))
             rel_dir == RelativeTo(dirpath, root)
             seen == [acc EXCEPT !.visited = @ \cup {dirpath}]
         IN  IF \E i \in 1..Len(rel_dir.parts) : rel_dir.parts[i] \in hardcoded_ignores
             THEN walk(Tail(stack), root, patterns, fs, seen)
             ELSE IF Str(rel_dir) # <<".">> /\ should_skip_dir(Str(rel_dir), patterns)
             THEN walk(Tail(stack), root, patterns, fs, seen)
             ELSE walk(DirNames(dirpath) \o Tail(stack), root, patterns, fs,
                       [seen EXCEPT !.results =
                            @ \o wanted_files(dirpath, root, patterns, fs)])

\* scan_folder: results is the list of file paths (as strings), visited the
\* directories the walk yielded.
scan_folder(root, patterns, fs) ==
    walk(<<Str(root)>>, root, patterns, fs, [results |-> <<>>, visited |-> {}])

---------------------------------------------------------------------------
(* openpyxl: cells and worksheets                                          *)

NoneCell == [k |-> "none", s |-> <<>>, n |-> 0, b |-> FALSE]
StrCell(s) == [k |-> "str", s |-> s, n |-> 0, b |-> FALSE]
IntCell(n) == [k |-> "int", s |-> <<>>, n |-> n, b |-> FALSE]
BoolCell(b) == [k |-> "bool", s |-> <<>>, n |-> 0, b |-> b]

\* Python truthiness of a cell value
Truthy(c) ==
    CASE c.k = "str" -> c.s # <<>>
      [] c.k = "int" -> c.n # 0
      [] c.k = "bool" -> c.b
      [] OTHER -> FALSE

\* a worksheet: whether the workbook holds it, its first row (the column
\* names; "" is an empty cell) and its data rows (sequences of cells)
NoSheet == [present |-> FALSE, header |-> <<>>, rows |-> <<>>]

\* wb.create_sheet(name)
EmptySheet == [present |-> TRUE, header |-> <<>>, rows |-> <<>>]

\* [cell.value for cell in sheet[1]]: an empty sheet yields one empty cell
HeaderRow(sheet) == IF sheet.header = <<>> THEN <<"">> ELSE sheet.header

\* row[i - 1] of iter_rows: a cell never written reads as None
CellAt(row, i) == IF i \in 1..Len(row) THEN row[i] ELSE NoneCell

\* list.index(x) + 1, and 0 where list.index raises ValueError
IndexOf(seq, x) ==
    LET at == {i \in 1..Len(seq) : seq[i] = x}
    IN  IF at = {} THEN 0 ELSE CHOOSE i \in at : \A j \in at : i <= j

\* the column a "for idx, h in enumerate(headers, start=1)" loop ends
\* with: the last one named x, 0 for None
LastIndexOf(seq, x) ==
    LET at == {i \in 1..Len(seq) : seq[i] = x}
    IN  IF at = {} THEN 0 ELSE CHOOSE i \in at : \A j \in at : j <= i

\* load_worksheet: a missing sheet is created
load_worksheet(sheet) == IF sheet.present THEN sheet ELSE EmptySheet

required_columns == <<"Path", "File", "Depth", "WantDoc">>

HasAll(header, names) == \A i \in 1..Len(names) : IndexOf(header, names[i]) # 0

---------------------------------------------------------------------------
(* buildMasterHeaders.py: main                                             *)

\* lines 133-138: the (folder, wantscan) pairs of the CodeFolders rows
\* whose Folder is set and whose WantScan is a bool
codefolders_of(sheet, folder_col, wantscan_col) ==
    LET pair(row) == [folder |-> CellAt(row, folder_col),
                      want |-> CellAt(row, wantscan_col)]
        pairs == [i \in 1..Len(sheet.rows) |-> pair(sheet.rows[i])]
    IN  SelectSeq(pairs, LAMBDA c : Truthy(c.folder) /\ c.want.k = "bool")

\* lines 142-152: the folders that are scanned
scanned_folders(codefolders, fs) ==
    LET paths == [i \in 1..Len(codefolders) |->
                    [path |-> PathOf(codefolders[i].folder.s),
                     want |-> codefolders[i].want.b]]
        ok(c) ==
            /\ c.want
            /\ Exists(c.path, fs) /\ IsDir(c.path)
            /\ is_git_initialized(c.path, fs)
    IN  SelectSeq(paths, ok)

\* lines 155-156 for every scanned folder
scans_of(folders, lines, fs) ==
    [i \in 1..Len(folders) |->
        LET root == folders[i].path
            patterns == load_gitignore_patterns(root, lines)
            got == scan_folder(root, patterns, fs)
        IN  [root |-> root, patterns |-> patterns,
             results |-> got.results, visited |-> got.visited]]

\* lines 157-159 for one scanned folder
records_of(scan) ==
    [j \in 1..Len(scan.results) |->
        LET f == PathOf(scan.results[j])
        IN  [repo |-> Str(Resolve(scan.root)),
             path |-> Str(Resolve(f)),
             name |-> Name(f),
             depth |-> get_depth(scan.root, f)]]

RECURSIVE all_records(_)
\* all_scanned_records
all_records(scans) ==
    IF scans = <<>> THEN <<>>
    ELSE records_of(Head(scans)) \o all_records(Tail(scans))

\* lines 163-167: the header the CODE sheet is rewritten under
needs_header_reset(code_sheet) ==
    ~HasAll(HeaderRow(code_sheet), required_columns)

\* lines 174-181: existing_rows, as the list of (p, f, d, w) in row order
existing_rows(rows, path_idx, file_idx, depth_idx, wantdoc_idx) ==
    LET entry(row) == [p |-> CellAt(row, path_idx), f |-> CellAt(row, file_idx),
                       d |-> CellAt(row, depth_idx), w |-> CellAt(row, wantdoc_idx)]
        entries == [i \in 1..Len(rows) |-> entry(rows[i])]
    IN  SelectSeq(entries, LAMBDA e : Truthy(e.p))

\* existing_rows.get(full_path): a later row with the same key replaces an
\* earlier one; [found |-> FALSE] is None
existing_get(existing, full_path) ==
    LET at == {i \in 1..Len(existing) : existing[i].p = StrCell(full_path)}
    IN  IF at = {} THEN [found |-> FALSE, w |-> NoneCell]
        ELSE [found |-> TRUE,
              w |-> existing[CHOOSE i \in at : \A j \in at : j <= i].w]

\* line 189: the first record of the path
first_record(records, full_path) ==
    records[CHOOSE i \in 1..Len(records) :
                /\ records[i].path = full_path
                /\ \A j \in 1..(i - 1) : records[j].path # full_path]

\* lines 192-198: the row appended for one path
new_row(old, record, full_path) ==
    IF old.found
    THEN <<StrCell(full_path), StrCell(record.name), IntCell(record.depth), old.w>>
    ELSE <<StrCell(full_path), StrCell(record.name), IntCell(record.depth),
           BoolCell(FALSE)>>

\* lines 183-201: the data rows of the rewritten CODE sheet
new_rows(existing, records) ==
    LET new_paths == {records[i].path : i \in 1..Len(records)}
        order == SortedStrs(new_paths)
    IN  [i \in 1..Len(order) |->
            new_row(existing_get(existing, order[i]),
                    first_record(records, order[i]), order[i])]

\* lines 161-201: the CODE sheet after the update
updated_code_sheet(code_sheet, records) ==
    LET reset == needs_header_reset(code_sheet)
        code_headers == IF reset THEN required_columns ELSE code_sheet.header
        rows == IF reset THEN <<>> ELSE code_sheet.rows
        existing == existing_rows(rows, IndexOf(code_headers, "Path"),
                                  IndexOf(code_headers, "File"),
                                  IndexOf(code_headers, "Depth"),
                                  IndexOf(code_headers, "WantDoc"))
    IN  [present |-> TRUE, header |-> code_headers,
         rows |-> new_rows(existing, records)]

NoRun == [prog |-> "none", exit |-> "none", scans |-> <<>>, records |-> <<>>]

\* main() of buildMasterHeaders.py, from start to exit
Refresh ==
    LET codefolders_sheet == load_worksheet(store.cf)
        code_sheet == load_worksheet(store.code)
        headers == HeaderRow(codefolders_sheet)
        folder_col == LastIndexOf(headers, "Folder")
        wantsan_col == LastIndexOf(headers, "WantScan")
        codefolders == codefolders_of(codefolders_sheet, folder_col, wantsan_col)
        scans == scans_of(scanned_folders(codefolders, files), gitignore, files)
        records == all_records(scans)
    IN  /\ IF \/ ~store.exists                       \* lines 108-110
              \/ folder_col = 0 \/ wantsan_col = 0   \* lines 129-131
           THEN /\ run' = [NoRun EXCEPT !.prog = "refresh", !.exit = "error"]
                /\ UNCHANGED store
           ELSE /\ run' = [prog |-> "refresh", exit |-> "ok",
                           scans |-> scans, records |-> records]
                /\ store' = [exists |-> TRUE, cf |-> codefolders_sheet,
                             code |-> updated_code_sheet(code_sheet, records)]
        /\ UNCHANGED <<files, gitignore, doc, edits>>

---------------------------------------------------------------------------
(* generateReactCodeDoc.py: main                                           *)

\* the deepest entry that still gets a FOLDER line (line 97)
MaxMarkerDepth == 4

\* the blank lines that end every entry (line 110)
SeparatorLines == 5

\* lines 35-39: the resolved Folder of every CodeFolders row that has one
doc_codefolders(sheet, folder_col) ==
    LET cells == [i \in 1..Len(sheet.rows) |-> CellAt(sheet.rows[i], folder_col)]
        set == SelectSeq(cells, Truthy)
    IN  [i \in 1..Len(set) |-> Str(Resolve(PathOf(set[i].s)))]

\* lines 52-57: the (p, f, d) of the rows whose WantDoc is True
doc_entries(rows, path_col, file_col, depth_col, wantdoc_col) ==
    LET entry(row) == [p |-> CellAt(row, path_col), f |-> CellAt(row, file_col),
                       d |-> CellAt(row, depth_col), w |-> CellAt(row, wantdoc_col)]
        all == [i \in 1..Len(rows) |-> entry(rows[i])]
        keep(e) ==
            /\ Truthy(e.p) /\ Truthy(e.f)
            /\ e.d # NoneCell /\ e.w # NoneCell
            /\ e.w = BoolCell(TRUE)
    IN  SelectSeq(all, keep)

\* the integer a bool or int compares as
NumOf(c) == IF c.k = "bool" THEN (IF c.b THEN 1 ELSE 0) ELSE c.n

\* whether a < b raises no TypeError
Comparable(a, b) ==
    \/ a.k = "str" /\ b.k = "str"
    \/ a.k \in {"int", "bool"} /\ b.k \in {"int", "bool"}

CellLess(a, b) == IF a.k = "str" THEN LessStr(a.s, b.s) ELSE NumOf(a) < NumOf(b)

RECURSIVE InsertEntry(_, _)
\* e put behind the last entry of a sorted list that is not greater
InsertEntry(e, sorted) ==
    IF sorted = <<>> THEN <<e>>
    ELSE IF CellLess(e.p, Head(sorted).p) THEN <<e>> \o sorted
    ELSE <<Head(sorted)>> \o InsertEntry(e, Tail(sorted))

RECURSIVE SortFrom(_, _)
SortFrom(entries, sorted) ==
    IF entries = <<>> THEN sorted
    ELSE SortFrom(Tail(entries), InsertEntry(Head(entries), sorted))

\* line 59 left out: the entries stay in the table's row order
entries_in_row_order(entries) == entries

\* line 59: entries.sort(key=lambda x: x[0]), a stable sort
sorted_entries(entries) == SortFrom(entries, <<>>)

\* whether line 59 raises TypeError: two keys that do not compare
sort_raises(entries) ==
    \E i, j \in 1..Len(entries) : ~Comparable(entries[i].p, entries[j].p)

RECURSIVE best_from(_, _, _)
\* the loop of find_best_codefolder; best.none is best_match = None
best_from(file_str, codefolders, best) ==
    IF codefolders = <<>> THEN best
    ELSE LET cf == Head(codefolders)
             take == /\ StartsWith(file_str, cf)
                     /\ (best.none \/ Len(cf) > Len(best.cf))
         IN  best_from(file_str, Tail(codefolders),
                       IF take THEN [none |-> FALSE, cf |-> cf] ELSE best)

\* lines 70-78
find_best_codefolder(file_path, codefolders) ==
    best_from(Str(file_path), codefolders, [none |-> TRUE, cf |-> <<>>])

\* lines 86-95: the folder marker, or that relative_to raises ValueError
folder_marker(file_path, codefolders) ==
    LET best_cf == find_best_codefolder(file_path, codefolders)
        parent_of_cf == Parent(PathOf(best_cf.cf))
    IN  IF best_cf.none \/ best_cf.cf = <<>>
        THEN [raises |-> FALSE, s |-> Str(Parent(file_path))]
        ELSE IF IsRelativeTo(Parent(file_path), parent_of_cf)
        THEN [raises |-> FALSE,
              s |-> <<".", ".", "/">> \o Str(RelativeTo(Parent(file_path), parent_of_cf))]
        ELSE [raises |-> TRUE, s |-> <<>>]

\* what is written to the document: one record per out.write
FolderLine(s) == [t |-> "folder", s |-> s, n |-> 1]
StartLine == [t |-> "start", s |-> <<>>, n |-> 1]
Content(s) == [t |-> "content", s |-> s, n |-> 0]
ErrorBlock(s) == [t |-> "error", s |-> s, n |-> 2]
BlankLines(n) == [t |-> "blank", s |-> <<>>, n |-> n]

\* lines 101-107: the file's text (named by the file it is the text of),
\* or the error block when open or read raises
file_body(file_path, fs) ==
    IF Resolve(file_path) \in fs
    THEN <<Content(Str(Resolve(file_path)))>>
    ELSE <<ErrorBlock(Str(file_path))>>

\* lines 82-110 without the try of line 101: an unreadable file raises
entry_output_unguarded(e, codefolders, fs) ==
    IF e.p.k # "str" \/ Resolve(PathOf(e.p.s)) \notin fs
    THEN [raises |-> TRUE, text |-> <<>>]
    ELSE LET file_path == PathOf(e.p.s)
             marker == folder_marker(file_path, codefolders)
         IN  IF marker.raises \/ e.d.k = "str"
             THEN [raises |-> TRUE, text |-> <<>>]
             ELSE [raises |-> FALSE,
                   text |-> (IF NumOf(e.d) <= MaxMarkerDepth
                             THEN <<FolderLine(marker.s)>> ELSE <<>>)
                            \o <<StartLine>>
                            \o file_body(file_path, fs)
                            \o <<BlankLines(SeparatorLines)>>]

\* lines 82-110: what one entry writes, and whether it raises before
\* writing (Path() of a non-str, relative_to, "<=" on a str)
entry_output(e, codefolders, fs) ==
    IF e.p.k # "str" THEN [raises |-> TRUE, text |-> <<>>]
    ELSE LET file_path == PathOf(e.p.s)
             marker == folder_marker(file_path, codefolders)
         IN  IF marker.raises \/ e.d.k = "str"
             THEN [raises |-> TRUE, text |-> <<>>]
             ELSE [raises |-> FALSE,
                   text |-> (IF NumOf(e.d) <= MaxMarkerDepth
                             THEN <<FolderLine(marker.s)>> ELSE <<>>)
                            \o <<StartLine>>
                            \o file_body(file_path, fs)
                            \o <<BlankLines(SeparatorLines)>>]

RECURSIVE write_entries(_, _, _, _)
\* lines 80-110: the loop over the entries; an exception ends it and
\* leaves what was written
write_entries(entries, codefolders, fs, out) ==
    IF entries = <<>> THEN [raises |-> FALSE, text |-> out]
    ELSE LET one == entry_output(Head(entries), codefolders, fs)
         IN  IF one.raises THEN [raises |-> TRUE, text |-> out]
             ELSE write_entries(Tail(entries), codefolders, fs, out \o one.text)

\* lines 15-50 without the check of the CODE columns (lines 43-50)
workbook_rejected_columns_unchecked(st) ==
    \/ ~st.exists
    \/ ~st.code.present \/ ~st.cf.present
    \/ IndexOf(HeaderRow(st.cf), "Folder") = 0

\* lines 15-50: the checks that end the run with sys.exit(1)
workbook_rejected(st) ==
    \/ ~st.exists                                        \* lines 15-17
    \/ ~st.code.present \/ ~st.cf.present                \* lines 19-24
    \/ IndexOf(HeaderRow(st.cf), "Folder") = 0           \* lines 31-33
    \/ ~HasAll(HeaderRow(st.code), required_columns)     \* lines 43-50

\* main() of generateReactCodeDoc.py, from start to exit
Generate ==
    LET cf_headers == HeaderRow(store.cf)
        headers == HeaderRow(store.code)
        codefolders == doc_codefolders(store.cf, IndexOf(cf_headers, "Folder"))
        entries == doc_entries(store.code.rows, IndexOf(headers, "Path"),
                               IndexOf(headers, "File"), IndexOf(headers, "Depth"),
                               IndexOf(headers, "WantDoc"))
        written == write_entries(sorted_entries(entries), codefolders, files, <<>>)
        done(exit) == [NoRun EXCEPT !.prog = "generate", !.exit = exit]
    IN  /\ IF workbook_rejected(store)
           THEN run' = done("error") /\ UNCHANGED doc
           ELSE IF sort_raises(entries)                         \* line 59
           THEN run' = done("crash") /\ UNCHANGED doc
           ELSE /\ run' = done(IF written.raises THEN "crash" ELSE "ok")
                /\ doc' = [exists |-> TRUE, text |-> written.text]
        /\ UNCHANGED <<store, files, gitignore, edits>>

---------------------------------------------------------------------------
(* The operator and the disk                                               *)

\* the changes by the operator and on disk that one behaviour holds
MaxEdits == 2

\* the row with cell i set, padded with empty cells up to i
SetCell(row, i, c) ==
    [j \in 1..(IF i > Len(row) THEN i ELSE Len(row)) |->
        IF j = i THEN c ELSE CellAt(row, j)]

\* the operator marks or unmarks row i of the CODE sheet in its WantDoc column
OperatorSetFlag(i, v) ==
    /\ edits < MaxEdits
    /\ store.exists /\ store.code.present
    /\ IndexOf(store.code.header, "WantDoc") # 0
    /\ i \in 1..Len(store.code.rows)
    /\ store' = [store EXCEPT !.code.rows[i] =
                    SetCell(@, IndexOf(store.code.header, "WantDoc"), BoolCell(v))]
    /\ run' = [NoRun EXCEPT !.prog = "operator"]
    /\ edits' = edits + 1
    /\ UNCHANGED <<files, gitignore, doc>>

\* a file is deleted from disk, or created
FsToggle(f) ==
    /\ edits < MaxEdits
    /\ edits' = edits + 1
    /\ files' = IF f \in files THEN files \ {f} ELSE files \cup {f}
    /\ run' = [NoRun EXCEPT !.prog = "fs"]
    /\ UNCHANGED <<store, gitignore, doc>>

---------------------------------------------------------------------------
(* Workbooks, ignore files and documents the runs start from               *)

\* a Selection entry of a file of repository /r
Entry(path, flag) ==
    [path |-> Str(path), name |-> Name(path), depth |-> get_depth(d_r, path),
     flag |-> flag]

\* the entry as a row under a header: every value under its column name
Lay(header, e) ==
    [i \in 1..Len(header) |->
        CASE header[i] = "Path" -> StrCell(e.path)
          [] header[i] = "File" -> StrCell(e.name)
          [] header[i] = "Depth" -> IntCell(e.depth)
          [] header[i] = "WantDoc" -> e.flag
          [] OTHER -> NoneCell]

CodeSheet(header, entries) ==
    [present |-> TRUE, header |-> header,
     rows |-> [i \in 1..Len(entries) |-> Lay(header, entries[i])]]

\* a CodeFolders row under a header
LayFolder(header, folder, want) ==
    [i \in 1..Len(header) |->
        CASE header[i] = "Folder" -> StrCell(folder)
          [] header[i] = "WantScan" -> want
          [] OTHER -> NoneCell]

FolderSheet(header, pairs) ==
    [present |-> TRUE, header |-> header,
     rows |-> [i \in 1..Len(pairs) |-> LayFolder(header, pairs[i][1], pairs[i][2])]]

Yes == BoolCell(TRUE)
No == BoolCell(FALSE)

\* the header orders a CODE sheet is started with: the one line 166 writes,
\* three that hold the same columns in another order, and two with a
\* column of the operator's own
HeaderOrders ==
    {<<"Path", "File", "Depth", "WantDoc">>,
     <<"Path", "File", "WantDoc", "Depth">>,
     <<"File", "Path", "Depth", "WantDoc">>,
     <<"Path", "Depth", "File", "WantDoc">>,
     <<"Path", "File", "Depth", "WantDoc", "Notes">>,
     <<"Notes", "Path", "File", "Depth", "WantDoc">>}

\* a file that was scanned once and is gone from disk since
f_gone == Child(d_r, <<"g", ".", "j", "s">>)

\* the entries a CODE sheet that has rows is started with (in any row order)
StartEntries ==
    <<Entry(f_c, Yes), Entry(f_a, Yes), Entry(f_gone, Yes), Entry(f_b, NoneCell)>>

FolderHeader == <<"Folder", "WantScan">>

\* the CodeFolders sheets: one repository; nested repositories in both
\* orders (a trailing separator on one); a sheet whose rows are skipped for
\* every reason lines 137-152 know
FolderSheets ==
    {FolderSheet(FolderHeader, << <<Str(d_r), Yes>> >>),
     FolderSheet(FolderHeader, << <<Str(d_r), Yes>>, <<Str(d_s), Yes>> >>),
     FolderSheet(<<"WantScan", "Notes", "Folder">>,
                 << <<Str(d_s) \o <<"/">>, Yes>>, <<Str(d_r), Yes>> >>),
     FolderSheet(FolderHeader,
                 << <<Str(d_r), No>>, <<Str(d_s), Yes>>, <<<<"/", "q">>, Yes>>,
                    <<Str(d_sx), Yes>>, <<Str(f_a), Yes>>, <<Str(d_r), NoneCell>> >>)}

p_build == n_build
p_build_slash == n_build \o <<"/">>

\* the .gitignore files of /r
IgnoreFiles ==
    {<<>>,
     <<p_build>>,
     <<p_build_slash>>,
     <<<<"#", "x">>, <<" ">>, <<"s", "?", "/", " ">>>>,
     <<<<"*", ".", "c", "s", "s">>, <<"b", "u", "i", "l", "d", "/", "s", "*">>>>}

NoDoc == [exists |-> FALSE, text |-> <<>>]

\* the files on disk when a run starts
StartFiles == {f_a, f_b, f_t, f_c, f_d, f_e, f_m, f_n}

\* the files that come and go between runs
Volatile == {f_a, f_e}

---------------------------------------------------------------------------
(* Inventory refresh: the operator's workbook, refreshed again and again   *)

Init ==
    /\ \/ /\ gitignore = <<>>
          /\ \E cf \in FolderSheets :
                \/ \E h \in HeaderOrders :
                      store = [exists |-> TRUE, cf |-> cf,
                               code |-> CodeSheet(h, StartEntries)]
                \/ store = [exists |-> TRUE, cf |-> cf,
                            code |-> CodeSheet(required_columns, <<>>)]
       \/ /\ gitignore \in IgnoreFiles
          /\ \E cf \in FolderSheets :
                /\ Len(cf.rows) <= 2
                /\ store = [exists |-> TRUE, cf |-> cf, code |-> NoSheet]
    /\ files = StartFiles
    /\ doc = NoDoc
    /\ run = NoRun
    /\ edits = 0

Next ==
    \/ Refresh
    \/ \E i \in 1..Len(store.code.rows), v \in BOOLEAN : OperatorSetFlag(i, v)
    \/ \E f \in Volatile : FsToggle(f)

Spec == Init /\ [][Next]_vars

---------------------------------------------------------------------------
(* Reading the Selection table the way both programs do: by column name    *)

\* the entry a row holds under the sheet's header
ByHeader(sheet, row) ==
    [path |-> CellAt(row, IndexOf(sheet.header, "Path")),
     file |-> CellAt(row, IndexOf(sheet.header, "File")),
     depth |-> CellAt(row, IndexOf(sheet.header, "Depth")),
     flag |-> CellAt(row, IndexOf(sheet.header, "WantDoc"))]

EntriesOf(sheet) == [i \in 1..Len(sheet.rows) |-> ByHeader(sheet, sheet.rows[i])]

\* the entries of the sheet whose key is path
EntriesAt(sheet, path) ==
    {e \in {EntriesOf(sheet)[i] : i \in 1..Len(sheet.rows)} : e.path = StrCell(path)}

\* the sheet is a Selection table: it has the four columns
IsSelectionTable(sheet) == sheet.present /\ HasAll(sheet.header, required_columns)

ScannedPaths(records) == {records[i].path : i \in 1..Len(records)}

\* this step is an inventory refresh that ran to its end
RefreshStep == run'.prog = "refresh" /\ run'.exit = "ok"

\* the last thing that happened is an inventory refresh that ran to its end
Refreshed == run.prog = "refresh" /\ run.exit = "ok"

---------------------------------------------------------------------------
(* Claims about the inventory refresh                                      *)

FlagsKept(before, after, records) ==
    \A path \in ScannedPaths(records) :
        /\ EntriesAt(after, path) # {}
        /\ \A e \in EntriesAt(after, path) :
              IF EntriesAt(before, path) = {}
              THEN e.flag = No
              ELSE \A old \in EntriesAt(before, path) : e.flag = old.flag

\* C1: a refresh of a Selection table leaves every scanned path with an
\* entry whose WantDoc is the one the path's entry had before the refresh,
\* and FALSE when the path had no entry.
FlagPreservation ==
    [][(RefreshStep /\ IsSelectionTable(store.code))
        => FlagsKept(store.code, store'.code, run'.records)]_vars

\* The same where the header is the one line 166 writes.
FlagPreservationCanonical ==
    [][(RefreshStep /\ store.code.present /\ store.code.header = required_columns)
        => FlagsKept(store.code, store'.code, run'.records)]_vars

KeysAreScan(sheet, records) ==
    LET keys == [i \in 1..Len(sheet.rows) |-> EntriesOf(sheet)[i].path]
    IN  /\ \A i, j \in 1..Len(keys) : i # j => keys[i] # keys[j]
        /\ {keys[i] : i \in 1..Len(keys)} = {StrCell(q) : q \in ScannedPaths(records)}

\* C2: after a refresh the keys of the Selection table are the distinct
\* scanned paths, each once.
KeysExactlyScanned == Refreshed => KeysAreScan(store.code, run.records)

\* The same where the header is the one line 166 writes.
KeysExactlyScannedCanonical ==
    (Refreshed /\ store.code.header = required_columns)
        => KeysAreScan(store.code, run.records)

\* a refresh of what the last refresh wrote, with the same scan
SecondRefresh == Refreshed /\ RefreshStep /\ run'.records = run.records

\* C3: a second refresh with the same scan leaves the table as the first
\* refresh wrote it.
ReconcileIdempotent == [][SecondRefresh => store'.code = store.code]_vars

\* The same where the header is the one line 166 writes.
ReconcileIdempotentCanonical ==
    [][(SecondRefresh /\ store.code.header = required_columns)
        => store'.code = store.code]_vars

Beneath(p, d) == p # d /\ IsRelativeTo(p, d)

\* the directories below the root of a scan
DirsBelow(root) == {d \in Dirs : Beneath(d, root)}

HasIgnoredPart(rel) == \E i \in 1..Len(rel.parts) : rel.parts[i] \in hardcoded_ignores

NothingBeneath(scan, d) ==
    /\ \A i \in 1..Len(scan.results) : ~Beneath(PathOf(scan.results[i]), d)
    /\ \A v \in scan.visited : ~Beneath(v, d)

\* C4: no file of a scan lies beneath a directory with a built-in ignore
\* name among its components or whose relative path matches an ignore
\* pattern, and the walk yields no directory beneath such a directory.
PruningCorrect ==
    Refreshed =>
        \A i \in 1..Len(run.scans) : \A d \in DirsBelow(run.scans[i].root) :
            LET rel == RelativeTo(d, run.scans[i].root)
            IN  (HasIgnoredPart(rel)
                    \/ path_matches_patterns(Str(rel), run.scans[i].patterns))
                => NothingBeneath(run.scans[i], d)

\* The same for the one form line 54 tests: the path with "/" appended.
PruningCorrectAsTested ==
    Refreshed =>
        \A i \in 1..Len(run.scans) : \A d \in DirsBelow(run.scans[i].root) :
            LET rel == RelativeTo(d, run.scans[i].root)
            IN  (HasIgnoredPart(rel) \/ should_skip_dir(Str(rel), run.scans[i].patterns))
                => NothingBeneath(run.scans[i], d)

\* C9: a directory whose relative path matches an ignore pattern, bare or
\* with a trailing separator, has no file in the scan's results.
DirectoryMatchedEitherWay ==
    Refreshed =>
        \A i \in 1..Len(run.scans) : \A d \in DirsBelow(run.scans[i].root) :
            LET rel == RelativeTo(d, run.scans[i].root)
                pats == run.scans[i].patterns
            IN  (path_matches_patterns(Str(rel), pats)
                    \/ path_matches_patterns(Str(rel) \o <<"/">>, pats))
                => \A j \in 1..Len(run.scans[i].results) :
                       ~Beneath(PathOf(run.scans[i].results[j]), d)

RowsUnderColumns(before, after, records) ==
    \A path \in ScannedPaths(records) :
        LET r == first_record(records, path)
            flag == IF EntriesAt(before, path) = {} THEN No
                    ELSE (CHOOSE old \in EntriesAt(before, path) : TRUE).flag
        IN  EntriesAt(after, path) =
                {[path |-> StrCell(path), file |-> StrCell(r.name),
                  depth |-> IntCell(r.depth), flag |-> flag]}

\* C10: under any header holding the four column names, a refresh leaves
\* each scanned path's name, depth and flag under the columns of those names.
ColumnsConsistent ==
    [][(RefreshStep /\ IsSelectionTable(store.code))
        => RowsUnderColumns(store.code, store'.code, run'.records)]_vars

\* The same where the header is the one line 166 writes.
ColumnsConsistentCanonical ==
    [][(RefreshStep /\ store.code.present /\ store.code.header = required_columns)
        => RowsUnderColumns(store.code, store'.code, run'.records)]_vars

---------------------------------------------------------------------------
(* Document generation: any Selection table, any rows marked               *)

\* the files a Selection table lists: in /r, in the nested /r/s, in /r/sx,
\* five directories deep, and one that is gone from disk
DocPaths == <<f_c, f_a, f_z, f_gone, f_b>>

\* the rows of a table, top to bottom or bottom to top
DocEntries(flags, flip) ==
    [i \in 1..Len(DocPaths) |->
        LET j == IF flip THEN Len(DocPaths) + 1 - i ELSE i
        IN  Entry(DocPaths[j], flags[j])]

\* the marks of the rows: marked or not, and an empty cell in the last row
DocFlags ==
    {fl \in [1..Len(DocPaths) -> {Yes, No, NoneCell}] :
        \A i \in 1..Len(DocPaths) : fl[i] = NoneCell => i = Len(DocPaths)}

DocHeaders ==
    {<<"Path", "File", "Depth", "WantDoc">>,
     <<"Path", "Depth", "File", "WantDoc">>,
     <<"Notes", "WantDoc", "File", "Depth", "Path">>}

DocFolderSheets ==
    {FolderSheet(FolderHeader, << <<Str(d_r), Yes>>, <<Str(d_s), Yes>> >>),
     FolderSheet(<<"WantScan", "Notes", "Folder">>,
                 << <<Str(d_s) \o <<"/">>, No>>, <<Str(d_r), Yes>> >>),
     FolderSheet(FolderHeader, << <<<<"/", "q">>, Yes>> >>)}

DocVolatile == {f_a, f_z}

InitDoc ==
    /\ \E cf \in DocFolderSheets, h \in DocHeaders, fl \in DocFlags, flip \in BOOLEAN :
          store = [exists |-> TRUE, cf |-> cf,
                   code |-> CodeSheet(h, DocEntries(fl, flip))]
    /\ files = StartFiles \cup {f_z}
    /\ gitignore = <<>>
    /\ doc = NoDoc
    /\ run = NoRun
    /\ edits = 0

NextDoc ==
    \/ Generate
    \/ \E f \in DocVolatile : FsToggle(f)

SpecDoc == InitDoc /\ [][NextDoc]_vars

\* the last thing that happened is a document generation that got past
\* the checks of the workbook
Generated == run.prog = "generate" /\ run.exit # "error"

\* the keys of the rows marked TRUE, ascending
IncludedKeys(sheet) ==
    SortedStrs({e.path.s : e \in {x \in {EntriesOf(sheet)[i] : i \in 1..Len(sheet.rows)} :
                                    x.flag = Yes}})

\* the document without its FOLDER lines
Bodies(text) == SelectSeq(text, LAMBDA x : x.t # "folder")

\* C6: the document holds, for every marked entry in order, the start
\* marker, the file's text or (file unreadable) the error block, and five
\* blank lines; no unreadable file ends the run.
BatchResilient ==
    Generated =>
        LET want == IncludedKeys(store.code)
            got == Bodies(doc.text)
        IN  /\ run.exit = "ok"
            /\ Len(got) = 3 * Len(want)
            /\ \A i \in 1..Len(want) :
                  /\ got[3 * i - 2] = StartLine
                  /\ got[3 * i - 1] = IF PathOf(want[i]) \in files
                                      THEN Content(want[i]) ELSE ErrorBlock(want[i])
                  /\ got[3 * i] = BlankLines(5)

\* an unreadable file's error block is followed by a later file's text
BatchResilientWitness ==
    /\ Generated
    /\ \E i, j \in 1..Len(doc.text) :
          i < j /\ doc.text[i].t = "error" /\ doc.text[j].t = "content"

\* the keys of the document's file sections, in document order
SectionKeys(text) ==
    LET bodies == SelectSeq(text, LAMBDA x : x.t \in {"content", "error"})
    IN  [i \in 1..Len(bodies) |-> bodies[i].s]

\* C7: the document has one section per row marked TRUE, none for any
\* other row, in ascending Path order.
SectionsAreMarkedRows ==
    Generated =>
        LET keys == SectionKeys(doc.text)
            rows == EntriesOf(store.code)
        IN  /\ \A i, j \in 1..Len(keys) : i < j => LessStr(keys[i], keys[j])
            /\ \A r \in 1..Len(rows) :
                  Cardinality({i \in 1..Len(keys) : StrCell(keys[i]) = rows[r].path})
                      = IF rows[r].flag = Yes THEN 1 ELSE 0
            /\ \A i \in 1..Len(keys) :
                  \E r \in 1..Len(rows) : rows[r].path = StrCell(keys[i])

\* two marked rows that stand in descending order in the table, and a row
\* that is not marked
SectionsAreMarkedRowsWitness ==
    /\ Generated
    /\ Len(SectionKeys(doc.text)) >= 2
    /\ LET rows == EntriesOf(store.code)
       IN  /\ \E i, j \in 1..Len(rows) :
                 /\ i < j /\ rows[i].flag = Yes /\ rows[j].flag = Yes
                 /\ LessStr(rows[j].path.s, rows[i].path.s)
           /\ \E i \in 1..Len(rows) : rows[i].flag = No

\* the repository roots of the CodeFolders sheet, as generation reads them
RootsOf(st) ==
    LET cfs == doc_codefolders(st.cf, IndexOf(HeaderRow(st.cf), "Folder"))
    IN  {cfs[i] : i \in 1..Len(cfs)}

\* the label built from the longest root that is an ancestor directory of
\* the file, component by component
LongestAncestorLabel(file_path, roots) ==
    LET above == {r \in roots : IsRelativeTo(file_path, PathOf(r))}
    IN  IF above = {} THEN Str(Parent(file_path))
        ELSE LET best == CHOOSE r \in above : \A q \in above : Len(q) <= Len(r)
             IN  <<".", ".", "/">> \o
                     Str(RelativeTo(Parent(file_path), Parent(PathOf(best))))

\* C5: every FOLDER line is built from the longest configured root that is
\* a path-prefix (an ancestor directory) of the file it heads.
LabelFromLongestAncestor ==
    Generated =>
        \A i \in 1..Len(doc.text) :
            doc.text[i].t = "folder" =>
                doc.text[i].s =
                    LongestAncestorLabel(PathOf(doc.text[i + 2].s), RootsOf(store))

---------------------------------------------------------------------------
(* Both runs on workbooks that lack a sheet or a column                    *)

StaleDoc == [exists |-> TRUE, text |-> <<StartLine, BlankLines(SeparatorLines)>>]

CfgEntries == <<Entry(f_a, Yes), Entry(f_b, Yes), Entry(f_c, No)>>

CfgFolderSheets ==
    {NoSheet, EmptySheet,
     FolderSheet(FolderHeader, << <<Str(d_r), Yes>> >>),
     FolderSheet(<<"Folder">>, << <<Str(d_r), Yes>> >>),
     FolderSheet(<<"WantScan">>, << <<Str(d_r), Yes>> >>)}

CfgCodeSheets ==
    {NoSheet, EmptySheet,
     CodeSheet(required_columns, CfgEntries),
     CodeSheet(<<"Path", "File", "WantDoc">>, CfgEntries),
     CodeSheet(<<"File", "Depth", "WantDoc">>, CfgEntries)}

InitCfg ==
    /\ \E ex \in BOOLEAN, cf \in CfgFolderSheets, code \in CfgCodeSheets :
          store = [exists |-> ex, cf |-> cf, code |-> code]
    /\ files = StartFiles
    /\ gitignore = <<>>
    /\ doc \in {NoDoc, StaleDoc}
    /\ run = NoRun
    /\ edits = 0

NextCfg == Refresh \/ Generate

SpecCfg == InitCfg /\ [][NextCfg]_vars

HasColumn(sheet, name) == sheet.present /\ IndexOf(sheet.header, name) # 0

\* the run ended with an error before it scanned or wrote anything
Aborted ==
    /\ run'.exit = "error" /\ run'.scans = <<>>
    /\ store' = store /\ doc' = doc

\* the store, a table or a column the run reads is missing
RefreshConfigError ==
    \/ ~store.exists
    \/ ~HasColumn(store.cf, "Folder") \/ ~HasColumn(store.cf, "WantScan")
    \/ ~IsSelectionTable(store.code)

GenerateConfigError ==
    \/ ~store.exists
    \/ ~HasColumn(store.cf, "Folder")
    \/ ~IsSelectionTable(store.code)

\* C8 as stated: either run, started on a workbook that lacks the store, a
\* table or a column, ends with an error before scanning or writing and
\* leaves store and document as they were.
ConfigErrorFatal ==
    [][/\ (run'.prog = "refresh" /\ RefreshConfigError) => Aborted
       /\ (run'.prog = "generate" /\ GenerateConfigError) => Aborted]_vars

\* what is fatal to the inventory refresh: the CODE sheet is not
RefreshFatal ==
    \/ ~store.exists
    \/ ~HasColumn(store.cf, "Folder") \/ ~HasColumn(store.cf, "WantScan")

\* C8 as amended: document generation is as stated; the inventory refresh
\* aborts on a missing store, CodeFolders sheet, Folder or WantScan column,
\* and on a missing CODE sheet or CODE column it runs to its end and saves
\* a CODE sheet under the four columns.
ConfigErrorFatalAmended ==
    [][/\ (run'.prog = "refresh" /\ RefreshFatal) => Aborted
       /\ (run'.prog = "refresh" /\ ~RefreshFatal) =>
             (run'.exit = "ok" /\ store'.exists /\ IsSelectionTable(store'.code))
       /\ (run'.prog = "generate" /\ GenerateConfigError) => Aborted]_vars

\* a run that aborted on a workbook that exists
ConfigErrorWitness ==
    /\ run.exit = "error" /\ store.exists
    /\ doc = StaleDoc

====
